---- MODULE Spec2Model ----
(***************************************************************************)
(* A model of the Whitted ray tracer of src/Renderer.hpp and of its second *)
(* copy src/unnamed/part_000 (which also holds the vector algebra).        *)
(*                                                                         *)
(* float is modelled as fixed point: the integer n stands for n / FP, and  *)
(* every float operation rounds toward zero on that grid.  NaN is the one  *)
(* non-number the code can produce (0/0 in normalize of the zero vector);  *)
(* it propagates through arithmetic and makes every comparison false.      *)
(* Vector3f is a triple <<x, y, z>> and Vector2f a pair.                   *)
(***************************************************************************)
EXTENDS Integers, Sequences, FiniteSets, TLC

\* fixed-point resolution of the float model: n stands for n / FP
FP == 100

\* numeric_limits<float>::max()
kInfinity == 1000000

\* the float 0/0, as Vector3f::operator/ produces it for a zero length
NaN == -1000000000

----------------------------------------------------------------------------
(* float arithmetic *)

IsNaN(a) == a = NaN

Abs(a) == IF a < 0 THEN 0 - a ELSE a

\* C division of integers: the quotient rounded toward zero (b # 0)
Quot(a, b) ==
  IF (a >= 0) = (b > 0) THEN Abs(a) \div Abs(b) ELSE 0 - (Abs(a) \div Abs(b))

fadd(a, b) == IF IsNaN(a) \/ IsNaN(b) THEN NaN ELSE a + b

fsub(a, b) == IF IsNaN(a) \/ IsNaN(b) THEN NaN ELSE a - b

fmul(a, b) == IF IsNaN(a) \/ IsNaN(b) THEN NaN ELSE Quot(a * b, FP)

\* a / b; the only zero divisor the code meets is the length of the zero
\* vector, whose components are zero too: 0/0
fdiv(a, b) ==
  IF IsNaN(a) \/ IsNaN(b) \/ b = 0 THEN NaN ELSE Quot(a * FP, b)

\* a < b on floats: false as soon as one side is NaN
flt(a, b) == ~IsNaN(a) /\ ~IsNaN(b) /\ a < b

\* std::max(a, b) is (a < b) ? b : a, std::min(a, b) is (b < a) ? b : a
fmax(a, b) == IF flt(a, b) THEN b ELSE a

fmin(a, b) == IF flt(b, a) THEN b ELSE a

fabs(a) == IF IsNaN(a) THEN NaN ELSE Abs(a)

RECURSIVE isqrtBin(_, _, _)
\* the largest r in lo..hi with r * r <= n, by bisection
isqrtBin(n, lo, hi) ==
  IF lo >= hi THEN lo
  ELSE LET mid == (lo + hi + 1) \div 2
       IN  IF mid * mid <= n THEN isqrtBin(n, mid, hi)
           ELSE isqrtBin(n, lo, mid - 1)

\* sqrt / sqrtf: sqrt(a / FP) * FP = sqrt(a * FP), rounded down
sqrtf(a) ==
  IF IsNaN(a) \/ a < 0 THEN NaN ELSE isqrtBin(a * FP, 0, 40000)

RECURSIVE fpow(_, _)
\* pow / powf for a whole exponent n >= 0
fpow(a, n) == IF n = 0 THEN FP ELSE fmul(a, fpow(a, n - 1))

\* clamp(lo, hi, v) of global.hpp
clamp(lo, hi, v) == fmax(lo, fmin(hi, v))

----------------------------------------------------------------------------
(* Vector3f *)

Vector3f(xx, yy, zz) == <<xx, yy, zz>>

\* Vector3f(float xx): all three components xx
Vector3f1(xx) == <<xx, xx, xx>>

\* Vector3f operator*(const float &r), and the friend r * v
VMulS(v, r) == <<fmul(v[1], r), fmul(v[2], r), fmul(v[3], r)>>

VDivS(v, r) == <<fdiv(v[1], r), fdiv(v[2], r), fdiv(v[3], r)>>

\* Vector3f operator*(const Vector3f &v): componentwise
VMul(a, b) == <<fmul(a[1], b[1]), fmul(a[2], b[2]), fmul(a[3], b[3])>>

VSub(a, b) == <<fsub(a[1], b[1]), fsub(a[2], b[2]), fsub(a[3], b[3])>>

VAdd(a, b) == <<fadd(a[1], b[1]), fadd(a[2], b[2]), fadd(a[3], b[3])>>

VNeg(a) == <<fsub(0, a[1]), fsub(0, a[2]), fsub(0, a[3])>>

dotProduct(a, b) ==
  fadd(fadd(fmul(a[1], b[1]), fmul(a[2], b[2])), fmul(a[3], b[3]))

length(a) == sqrtf(dotProduct(a, a))

normalize(v) == VDivS(v, length(v))

----------------------------------------------------------------------------
(* reflect, refract, fresnel *)

reflect(I, N) == VSub(I, VMulS(N, 2 * dotProduct(I, N)))

refract(I, N, ior) ==
  LET cosi == fabs(clamp(0 - FP, FP, dotProduct(I, N)))
      inv  == fdiv(FP, ior)
      t    == fsub(FP, fmul(fdiv(fmul(inv, FP), ior),
                            fsub(FP, fmul(cosi, cosi))))
  IN  IF flt(t, 0) THEN Vector3f1(0)
      ELSE LET coso == sqrtf(t)
           IN  VAdd(VMulS(I, inv), VMulS(N, fsub(fmul(inv, cosi), coso)))

fresnel(I, N, ior) ==
  LET cosi == fabs(clamp(0 - FP, FP, dotProduct(I, N)))
      R0   == fpow(fdiv(fsub(FP, ior), fadd(FP, ior)), 2)
  IN  fadd(R0, fmul(fsub(FP, R0), fpow(fsub(FP, cosi), 5)))

----------------------------------------------------------------------------
(* The primitives.  Object and its subclasses are not part of the two      *)
(* source files; the capability set of the specification (section 6) is    *)
(* modelled by one primitive kind, an axis-parallel rectangle in the plane *)
(* z = zpos, centred at (cx, cy), with half-width half and the constant    *)
(* normal (0, 0, nz).                                                      *)

\* Object::intersect(orig, dir, tNearK, indexK, uvK): the nearest
\* non-negative distance along the ray, the local index and the uv of the hit
intersect(object, orig, dir) ==
  LET t  == fdiv(fsub(object.zpos, orig[3]), dir[3])
      hx == fadd(orig[1], fmul(dir[1], t))
      hy == fadd(orig[2], fmul(dir[2], t))
  IN  IF /\ ~IsNaN(t) /\ ~flt(t, 0) /\ ~IsNaN(hx) /\ ~IsNaN(hy)
         /\ Abs(hx - object.cx) <= object.half
         /\ Abs(hy - object.cy) <= object.half
      THEN [hit |-> TRUE, tNearK |-> t, indexK |-> object.index,
            uvK |-> <<hx, hy>>]
      ELSE [hit |-> FALSE, tNearK |-> kInfinity, indexK |-> 0,
            uvK |-> <<0, 0>>]

\* Object::getSurfaceProperties(P, I, index, uv, N, st)
getSurfaceProperties(object, P, I, index, uv) ==
  [N |-> Vector3f(0, 0, object.nz * FP), st |-> uv]

\* Object::evalDiffuseColor(st)
evalDiffuseColor(object, st) == object.diffuseColor

----------------------------------------------------------------------------
(* trace *)

\* std::optional<hit_payload> holding nothing; hit_obj is the position of the
\* object in the list, 0 for none
NoPayload ==
  [some |-> FALSE, tNear |-> kInfinity, index |-> 0, uv |-> <<0, 0>>,
   hit_obj |-> 0]

\* mutant of closer: "<=" for "<", the last of several equally near wins
closerOrEqual(tNearK, tNear) == ~IsNaN(tNearK) /\ tNearK <= tNear

\* the test "tNearK < tNear" of the loop
closer(tNearK, tNear) == flt(tNearK, tNear)

RECURSIVE traceLoop(_, _, _, _, _, _)
\* the loop of trace from object k on, with the running tNear and payload
traceLoop(orig, dir, objects, k, tNear, payload) ==
  IF k > Len(objects) THEN payload
  ELSE LET r == intersect(objects[k], orig, dir)
       IN  IF r.hit /\ closer(r.tNearK, tNear)
           THEN traceLoop(orig, dir, objects, k + 1, r.tNearK,
                          [some |-> TRUE, tNear |-> r.tNearK,
                           index |-> r.indexK, uv |-> r.uvK, hit_obj |-> k])
           ELSE traceLoop(orig, dir, objects, k + 1, tNear, payload)

trace(orig, dir, objects) ==
  traceLoop(orig, dir, objects, 1, kInfinity, NoPayload)

----------------------------------------------------------------------------
(* castRay.  The value of a call is recorded as a node of its call tree:   *)
(* the arguments, the branch taken, the colour returned, the number of     *)
(* trace calls it made itself, what it hit, its recursive calls in the     *)
(* order they were made, and one record per light of the Phong loop.       *)

Black == Vector3f(0, 0, 0)

Node(depth, orig, dir, branch, color, traces, payload, hitPoint, N, children, lights) ==
  [depth |-> depth, orig |-> orig, dir |-> dir, branch |-> branch,
   color |-> color, traces |-> traces, payload |-> payload,
   hitPoint |-> hitPoint, N |-> N, children |-> children, lights |-> lights]

\* mutant of tooDeep: one level too late
tooDeepLate(depth, maxDepth) == depth > maxDepth + 1

\* mutant of tooDeep: ">=" for ">", one level too early
tooDeepEarly(depth, maxDepth) == depth >= maxDepth

\* the test "depth > scene.maxDepth"
tooDeep(depth, maxDepth) == depth > maxDepth

\* mutant of initialHitColor: hitColor starts black
initialHitColorBlack(scene) == Black

\* Vector3f hitColor = scene.backgroundColor, returned as it is on a miss
initialHitColor(scene) == scene.backgroundColor

\* reflectionRayOrig / refractionRayOrig of case REFLECTION_AND_REFRACTION
rayOrig(hitPoint, N, direction, epsilon) ==
  IF flt(dotProduct(direction, N), 0)
  THEN VSub(hitPoint, VMulS(N, epsilon))
  ELSE VAdd(hitPoint, VMulS(N, epsilon))

\* reflectionRayOrig of case REFLECTION
reflectionRayOrig(hitPoint, N, reflectionDirection, epsilon) ==
  IF flt(dotProduct(reflectionDirection, N), 0)
  THEN VAdd(hitPoint, VMulS(N, epsilon))
  ELSE VSub(hitPoint, VMulS(N, epsilon))

\* shadowPointOrig of the default case
shadowPointOrig(hitPoint, N, dir, epsilon) ==
  IF flt(dotProduct(dir, N), 0)
  THEN VAdd(hitPoint, VMulS(N, epsilon))
  ELSE VSub(hitPoint, VMulS(N, epsilon))

\* bool inShadow = shadow_res && (tNear * tNear < lightDistance2)
inShadow(shadow_res, lightDistance2) ==
  shadow_res.some /\ flt(fmul(shadow_res.tNear, shadow_res.tNear),
                         lightDistance2)

\* lightAmt += inShadow ? 0 : light->intensity * LdotN
lightAmtTerm(shadowed, intensity, LdotN) ==
  IF shadowed THEN Vector3f1(0) ELSE VMulS(intensity, LdotN)

\* specularColor += powf(max(0, -dot(reflectionDirection, dir)), exp) * intensity
specularTerm(intensity, reflectionDirection, dir, specularExponent) ==
  VMulS(intensity,
        fpow(fmax(0, fsub(0, dotProduct(reflectionDirection, dir))),
             specularExponent))

\* one pass of the loop over the lights: what it adds to lightAmt and to
\* specularColor
lightStep(light, hitPoint, N, dir, shadowOrig, object, objects) ==
  LET lightDir0      == VSub(light.position, hitPoint)
      lightDistance2 == dotProduct(lightDir0, lightDir0)
  IN  CHOOSE step \in
        {[shadow_res |-> shadow_res, lightDistance2 |-> lightDistance2,
          lightDir |-> lightDir,
          LdotN |-> fmax(0, dotProduct(lightDir, N)),
          inShadow |-> inShadow(shadow_res, lightDistance2),
          lightAmtAdd |->
            lightAmtTerm(inShadow(shadow_res, lightDistance2),
                         light.intensity,
                         fmax(0, dotProduct(lightDir, N))),
          specularAdd |->
            specularTerm(light.intensity, reflect(VNeg(lightDir), N), dir,
                         object.specularExponent)] :
           lightDir \in {normalize(lightDir0)},
           shadow_res \in {trace(shadowOrig, normalize(lightDir0), objects)}}
        : TRUE

RECURSIVE Accumulate(_, _)
\* an accumulator "Vector3f acc = 0" after "acc += terms[i]" for i = 1..n
Accumulate(terms, n) ==
  IF n = 0 THEN Vector3f1(0)
  ELSE VAdd(Accumulate(terms, n - 1), terms[n])

(* In castRay and its cases a value that is used more than once is bound   *)
(* by "x \in {e}": the value of e, computed once.                          *)

RECURSIVE castRay(_, _, _, _)

\* case REFLECTION_AND_REFRACTION
caseReflectionAndRefraction(orig, dir, scene, depth, payload, object, hitPoint, N) ==
  CHOOSE node \in
    {Node(depth, orig, dir, "REFLECTION_AND_REFRACTION",
          VAdd(VMulS(reflection.color, kr),
               VMulS(refraction.color, fsub(FP, kr))),
          1, payload, hitPoint, N, <<reflection, refraction>>, <<>>) :
       reflection \in
         {castRay(reflectionOrig, reflectionDirection, scene, depth + 1) :
            reflectionDirection \in {normalize(reflect(dir, N))},
            reflectionOrig \in
              {rayOrig(hitPoint, N, normalize(reflect(dir, N)),
                       scene.epsilon)}},
       refraction \in
         {castRay(refractionOrig, refractionDirection, scene, depth + 1) :
            refractionDirection \in
              {normalize(refract(dir, N, object.ior))},
            refractionOrig \in
              {rayOrig(hitPoint, N, normalize(refract(dir, N, object.ior)),
                       scene.epsilon)}},
       kr \in {fresnel(dir, N, object.ior)}}
    : TRUE

\* case REFLECTION
caseReflection(orig, dir, scene, depth, payload, object, hitPoint, N) ==
  CHOOSE node \in
    {Node(depth, orig, dir, "REFLECTION", VMulS(reflection.color, kr),
          1, payload, hitPoint, N, <<reflection>>, <<>>) :
       kr \in {fresnel(dir, N, object.ior)},
       reflection \in
         {castRay(reflectionOrig, reflectionDirection, scene, depth + 1) :
            reflectionDirection \in {reflect(dir, N)},
            reflectionOrig \in
              {reflectionRayOrig(hitPoint, N, reflect(dir, N),
                                 scene.epsilon)}}}
    : TRUE

\* the default case: the Phong model
caseDefault(orig, dir, scene, depth, payload, object, hitPoint, N, st) ==
  CHOOSE node \in
    {Node(depth, orig, dir, "DIFFUSE_AND_GLOSSY",
          VAdd(VMulS(VMul(Accumulate([i \in 1..Len(steps) |->
                                        steps[i].lightAmtAdd], Len(steps)),
                          evalDiffuseColor(object, st)),
                     object.Kd),
               VMulS(Accumulate([i \in 1..Len(steps) |->
                                   steps[i].specularAdd], Len(steps)),
                     object.Ks)),
          1 + Len(steps), payload, hitPoint, N, <<>>, steps) :
       steps \in
         {[i \in 1..Len(scene.lights) |->
             lightStep(scene.lights[i], hitPoint, N, dir, shadowOrig, object,
                       scene.objects)] :
            shadowOrig \in
              {shadowPointOrig(hitPoint, N, dir, scene.epsilon)}}}
    : TRUE

\* castRay after a hit: hitPoint, the surface properties and the switch
shade(orig, dir, scene, depth, payload, object) ==
  CHOOSE node \in
    {CASE object.materialType = "REFLECTION_AND_REFRACTION" ->
            caseReflectionAndRefraction(orig, dir, scene, depth, payload,
                                        object, hitPoint, sp.N)
       [] object.materialType = "REFLECTION" ->
            caseReflection(orig, dir, scene, depth, payload, object,
                           hitPoint, sp.N)
       [] OTHER ->
            caseDefault(orig, dir, scene, depth, payload, object, hitPoint,
                        sp.N, sp.st) :
       hitPoint \in {VAdd(orig, VMulS(dir, payload.tNear))},
       sp \in {getSurfaceProperties(object,
                                    VAdd(orig, VMulS(dir, payload.tNear)),
                                    dir, payload.index, payload.uv)}}
    : TRUE

castRay(orig, dir, scene, depth) ==
  IF tooDeep(depth, scene.maxDepth)
  THEN Node(depth, orig, dir, "black", Black, 0, NoPayload, Black, Black,
            <<>>, <<>>)
  ELSE CHOOSE node \in
         {IF payload.some
          THEN shade(orig, dir, scene, depth, payload,
                     scene.objects[payload.hit_obj])
          ELSE Node(depth, orig, dir, "miss", initialHitColor(scene), 1,
                    payload, Black, Black, <<>>, <<>>) :
            payload \in {trace(orig, dir, scene.objects)}}
         : TRUE

----------------------------------------------------------------------------
(* The scenes.  A scene is built once by the host program and is read-only *)
(* afterwards; the model draws it from a small family.                     *)

MaxObjects == 2
MaxLights == 2
MaxDepth == 2
MaxDim == 2

Object(zpos, nz, cx, half, materialType, ior, index) ==
  [zpos |-> zpos, nz |-> nz, cx |-> cx, cy |-> 0, half |-> half,
   materialType |-> materialType, ior |-> ior, Kd |-> (8 * FP) \div 10,
   Ks |-> (2 * FP) \div 10, specularExponent |-> 2,
   diffuseColor |-> Vector3f((6 * FP) \div 10, (7 * FP) \div 10,
                             (8 * FP) \div 10),
   index |-> index]

\* a large diffuse floor, a pane of an optically thinner medium above it, a
\* mirror in the plane of the floor and a small diffuse patch off the axis
Floor == Object(0 - 4 * FP, 1, 0, 10 * FP, "DIFFUSE_AND_GLOSSY",
                (13 * FP) \div 10, 1)

Glass == Object(0 - 2 * FP, 1, 0, 3 * FP, "REFLECTION_AND_REFRACTION",
                FP \div 2, 2)

Mirror == Object(0 - 4 * FP, 1, 0, 10 * FP, "REFLECTION",
                 (15 * FP) \div 10, 3)

Patch == Object(0 - 2 * FP, 1, 6 * FP, FP, "DIFFUSE_AND_GLOSSY",
                (13 * FP) \div 10, 4)

ObjectPool == {Floor, Glass, Mirror, Patch}

Light(position, intensity) == [position |-> position, intensity |-> intensity]

LightPool ==
  {Light(Vector3f(8 * FP, 0, 0), Vector3f1(FP \div 2)),
   Light(Vector3f(0, 2 * FP, 0 - FP), Vector3f1((9 * FP) \div 10))}

SeqsUpTo(S, n) == UNION {[1..k -> S] : k \in 0..n}

BackgroundPool ==
  {Vector3f((23 * FP) \div 100, (67 * FP) \div 100, (84 * FP) \div 100),
   Black}

\* scene.epsilon, above the rounding error of the fixed-point grid
Epsilon == 5

Scene(objects, lights, maxDepth, backgroundColor, width, height) ==
  [objects |-> objects, lights |-> lights, maxDepth |-> maxDepth,
   backgroundColor |-> backgroundColor, epsilon |-> Epsilon,
   width |-> width, height |-> height, fov |-> 90]

Scenes ==
  {Scene(os, ls, md, bg, 1, 1) :
     os \in SeqsUpTo(ObjectPool, MaxObjects),
     ls \in SeqsUpTo(LightPool, MaxLights),
     md \in 0..MaxDepth, bg \in BackgroundPool}

eye_pos == Vector3f1(0)

\* the ray directions the calls of the model are made with
Directions ==
  {normalize(Vector3f(0, 0, 0 - FP)), normalize(Vector3f(FP, 0, 0 - FP)),
   normalize(Vector3f(3 * FP, 0, 0 - FP))}

----------------------------------------------------------------------------
(* State *)

VARIABLES
  scene,        \* the scene, read-only
  ret,          \* the last call of trace or castRay and what it returned
  variant,      \* which copy of Renderer::Render runs
  build,        \* the build: whether char is signed, what (char) leaves
                \* for a value char cannot hold
  pc,           \* where Render is
  m,            \* pixels computed so far
  frame_buffer, \* the colours stored by the pixel loop, in the order stored
  fp,           \* the file handle: "none", "open", "null" (open failed)
  file,         \* binary.ppm: its header and its pixel triples
  k,            \* pixels written so far
  nullWrites    \* calls made through a handle that is not open

vars == <<scene, ret, variant, build, pc, m, frame_buffer, fp, file, k,
          nullWrites>>

renderVars == <<variant, build, pc, m, frame_buffer, fp, file, k,
                nullWrites>>

NoFile ==
  [exists |-> FALSE,
   header |-> [magic |-> "", first |-> 0, second |-> 0, maxval |-> 0],
   data |-> <<>>]

NoCall ==
  [op |-> "none", orig |-> eye_pos, dir |-> eye_pos, depth |-> 0,
   payload |-> NoPayload,
   tree |-> Node(0, eye_pos, eye_pos, "none", Black, 0, NoPayload, Black,
                 Black, <<>>, <<>>)]

RenderIdle ==
  /\ variant = "Renderer.hpp"
  /\ build = [charSigned |-> TRUE, outOfRange |-> "low_byte"]
  /\ pc = "idle"
  /\ m = 0
  /\ frame_buffer = <<>>
  /\ fp = "none"
  /\ file = NoFile
  /\ k = 0
  /\ nullWrites = 0

Init ==
  /\ scene \in Scenes
  /\ ret = NoCall
  /\ RenderIdle

\* a call trace(orig, dir, scene.get_objects())
CallTrace(orig, dir) ==
  /\ ret.op = "none"
  /\ ret' = [NoCall EXCEPT !.op = "trace", !.orig = orig, !.dir = dir,
                           !.payload = trace(orig, dir, scene.objects)]
  /\ UNCHANGED <<scene, renderVars>>

\* a call castRay(orig, dir, scene, depth)
CallCastRay(orig, dir, depth) ==
  /\ ret.op = "none"
  /\ ret' = [NoCall EXCEPT !.op = "castRay", !.orig = orig, !.dir = dir,
                           !.depth = depth,
                           !.tree = castRay(orig, dir, scene, depth)]
  /\ UNCHANGED <<scene, renderVars>>

\* the caller takes the value returned
Return ==
  /\ ret.op # "none"
  /\ ret' = NoCall
  /\ UNCHANGED <<scene, renderVars>>

Next ==
  \/ \E dir \in Directions : CallTrace(eye_pos, dir)
  \/ \E dir \in Directions, depth \in 0..(MaxDepth + 2) :
       CallCastRay(eye_pos, dir, depth)
  \/ Return

Spec == Init /\ [][Next]_vars

----------------------------------------------------------------------------
(* Renderer::Render.  variant says which of the two copies runs: the one   *)
(* of src/Renderer.hpp (fopen, fprintf, fwrite) or the one of              *)
(* src/unnamed/part_000 (write_ppm_header, write_ppm_data).  Render is     *)
(* followed step by step: the pixel loop, the opening of binary.ppm, the   *)
(* header, the pixel loop of the writer, the return.  Whether the file can *)
(* be opened is the environment's choice at each open.                     *)

\* std::tan(deg2rad(scene.fov * 0.5f)), tabulated for the one fov of the model
tanHalfFov(fov) == IF fov = 90 THEN FP ELSE 0

\* the primary ray of pixel (row j, column i) in src/Renderer.hpp
primaryDirA(sc, j, i) ==
  LET scale == tanHalfFov(sc.fov)
      imageAspectRatio == fdiv(sc.width * FP, sc.height * FP)
      nx == fsub(fdiv(fmul(i * FP + FP \div 2, 2 * FP), sc.width * FP), FP)
      ny == fsub(fdiv(fmul(j * FP + FP \div 2, 2 * FP), sc.height * FP), FP)
      x  == fmul(fmul(nx, scale), imageAspectRatio)
      y  == fmul(fsub(0, ny), scale)
  IN  normalize(Vector3f(x, y, 0 - FP))

\* the primary ray of pixel (row i, column j) in src/unnamed/part_000
primaryDirB(sc, i, j) ==
  LET focal_length    == FP
      viewport_height == fmul(tanHalfFov(sc.fov), focal_length)
      viewport_width  == fdiv(fmul(viewport_height, sc.width * FP),
                              sc.height * FP)
      ndc_x == fsub(fmul(fdiv(j * FP + FP \div 2, sc.width * FP), 2 * FP), FP)
      ndc_y == fsub(fmul(fdiv(i * FP + FP \div 2, sc.height * FP), 2 * FP), FP)
      y == fmul(ndc_y, viewport_height)
      x == fmul(ndc_x, viewport_width)
  IN  normalize(Vector3f(x, y, 0 - FP))

\* what the pixel loop stores for pixel (row, col):
\* castRay(eye_pos, dir, scene, 0), times 255 in part_000
pixelValue(v, sc, row, col) ==
  IF v = "Renderer.hpp"
  THEN castRay(eye_pos, primaryDirA(sc, row, col), sc, 0).color
  ELSE VMulS(castRay(eye_pos, primaryDirB(sc, row, col), sc, 0).color,
             255 * FP)

\* the channel handed to (char) when a pixel is written:
\* 255 * clamp(0, 1, c) in src/Renderer.hpp, the stored value in part_000
channelValue(v, c) ==
  IF v = "Renderer.hpp" THEN fmul(255 * FP, clamp(0, FP, c)) ELSE c

\* the byte a conversion (char)f leaves: the truncated value when char can
\* hold it; otherwise the conversion is undefined, and what it leaves is
\* the build's: the low byte of the wider integer or the nearest bound of
\* char
toChar(f, b) ==
  LET i  == Quot(f, FP)
      lo == IF b.charSigned THEN 0 - 128 ELSE 0
      hi == IF b.charSigned THEN 127 ELSE 255
  IN  IF lo <= i /\ i <= hi THEN i % 256
      ELSE IF b.outOfRange = "low_byte" THEN i % 256
      ELSE (IF i < lo THEN lo ELSE hi) % 256

\* the three bytes written for a stored pixel value
pixelBytes(v, value, b) ==
  <<toChar(channelValue(v, value[1]), b),
    toChar(channelValue(v, value[2]), b),
    toChar(channelValue(v, value[3]), b)>>

\* the header as written: "P6\n", two integers, "255\n"
NoHeader == [magic |-> "", first |-> 0, second |-> 0, maxval |-> 0]

\* fprintf(fp, "P6\n%d %d\n255\n", scene.width, scene.height)
fprintfHeader(width, height) ==
  [magic |-> "P6", first |-> width, second |-> height, maxval |-> 255]

\* mutant of write_ppm_header: the two integers in the order of the parameters
write_ppm_header_in_parameter_order(width, height) ==
  [magic |-> "P6", first |-> width, second |-> height, maxval |-> 255]

\* write_ppm_header(path, width, height): file << height << " " << width
write_ppm_header(width, height) ==
  [magic |-> "P6", first |-> height, second |-> width, maxval |-> 255]

\* frame_buffer.size() and frame_buffer[0].size() in part_000
rows(sc) == sc.height

cols(sc) == sc.width

\* the pixel (row, col) that the writer's loop handles in its n-th pass
\* (n from 0): framebuffer[n] in src/Renderer.hpp; in part_000 the rows from
\* the last to the first
writtenPixel(v, sc, n) ==
  IF v = "Renderer.hpp" THEN <<n \div sc.width, n % sc.width>>
  ELSE <<rows(sc) - 1 - (n \div cols(sc)), n % cols(sc)>>

\* a file left in the directory by an earlier run
StaleFile ==
  [exists |-> TRUE, header |-> fprintfHeader(9, 9),
   data |-> <<[pixel |-> <<0, 0>>, rgb |-> <<1, 2, 3>>]>>]

EmptyFile == [exists |-> TRUE, header |-> NoHeader, data |-> <<>>]

BrightLight == Light(Vector3f(0, 0, 0), Vector3f1(5 * FP))

RenderScenes ==
  {Scene(os, ls, 1, bg, w, h) :
     os \in {<<>>, <<Floor>>, <<Glass, Floor>>},
     ls \in {<<>>, <<BrightLight>>},
     bg \in BackgroundPool, w \in 1..MaxDim, h \in 1..MaxDim}

InitRender ==
  /\ scene \in RenderScenes
  /\ ret = NoCall
  /\ variant \in {"Renderer.hpp", "part_000"}
  /\ build \in [charSigned : BOOLEAN, outOfRange : {"low_byte", "saturate"}]
  /\ pc = "pixels"
  /\ m = 0
  /\ frame_buffer = [n \in 1..(scene.width * scene.height) |-> Vector3f1(0)]
  /\ fp = "none"
  /\ file \in {NoFile, StaleFile}
  /\ k = 0
  /\ nullWrites = 0

\* one pass of the pixel loop
RenderPixel ==
  /\ pc = "pixels"
  /\ m < scene.width * scene.height
  /\ frame_buffer' =
       [frame_buffer EXCEPT ![m + 1] =
          pixelValue(variant, scene, m \div scene.width, m % scene.width)]
  /\ m' = m + 1
  /\ UNCHANGED <<scene, ret, variant, build, pc, fp, file, k, nullWrites>>

\* the pixel loop ends
RenderPixelsDone ==
  /\ pc = "pixels"
  /\ m = scene.width * scene.height
  /\ pc' = "open"
  /\ UNCHANGED <<scene, ret, variant, build, m, frame_buffer, fp, file,
                 k, nullWrites>>

\* src/Renderer.hpp: FILE *fp = fopen("binary.ppm", "wb")
Fopen ==
  /\ pc = "open"
  /\ variant = "Renderer.hpp"
  /\ \/ fp' = "open" /\ file' = EmptyFile
     \/ fp' = "null" /\ file' = file
  /\ pc' = "header"
  /\ UNCHANGED <<scene, ret, variant, build, m, frame_buffer, k,
                 nullWrites>>

\* src/Renderer.hpp: fprintf(fp, ...); no test of fp comes before it
Fprintf ==
  /\ pc = "header"
  /\ variant = "Renderer.hpp"
  /\ fp = "open"
  /\ file' = [file EXCEPT !.header = fprintfHeader(scene.width, scene.height)]
  /\ pc' = "data"
  /\ UNCHANGED <<scene, ret, variant, build, m, frame_buffer, fp, k,
                 nullWrites>>

\* src/Renderer.hpp: one pass of the loop: three conversions and fwrite
Fwrite ==
  /\ pc = "data"
  /\ variant = "Renderer.hpp"
  /\ fp = "open"
  /\ k < scene.height * scene.width
  /\ file' = [file EXCEPT !.data =
                Append(@, [pixel |-> writtenPixel(variant, scene, k),
                           rgb |-> pixelBytes(variant, frame_buffer[k + 1],
                                              build)])]
  /\ k' = k + 1
  /\ UNCHANGED <<scene, ret, variant, build, pc, m, frame_buffer, fp,
                 nullWrites>>

\* src/Renderer.hpp: fprintf, fwrite or fclose with fp = NULL: undefined;
\* the process dies there or the call does nothing and Render goes on
NullHandleUse ==
  /\ variant = "Renderer.hpp"
  /\ fp = "null"
  /\ \/ pc = "header"
     \/ pc = "data" /\ k < scene.height * scene.width
     \/ pc = "data" /\ k = scene.height * scene.width
  /\ nullWrites' = nullWrites + 1
  /\ \/ pc' = "crashed" /\ k' = k
     \/ pc = "header" /\ pc' = "data" /\ k' = k
     \/ pc = "data" /\ k < scene.height * scene.width /\ pc' = pc
          /\ k' = k + 1
     \/ pc = "data" /\ k = scene.height * scene.width /\ pc' = "returned"
          /\ k' = k
  /\ UNCHANGED <<scene, ret, variant, build, m, frame_buffer, fp, file>>

\* src/Renderer.hpp: fclose(fp) and the return
Fclose ==
  /\ pc = "data"
  /\ variant = "Renderer.hpp"
  /\ fp = "open"
  /\ k = scene.height * scene.width
  /\ fp' = "none"
  /\ pc' = "returned"
  /\ UNCHANGED <<scene, ret, variant, build, m, frame_buffer, file, k,
                 nullWrites>>

\* part_000: write_ppm_header(path, frame_buffer.size(),
\* frame_buffer[0].size()): open with ios::out, throw if not open, write the
\* header; the stream closes on return
WritePpmHeader ==
  /\ pc = "open"
  /\ variant = "part_000"
  /\ \/ /\ file' = [EmptyFile EXCEPT
                      !.header = write_ppm_header(rows(scene), cols(scene))]
        /\ pc' = "open_data"
        /\ fp' = "none"
     \/ /\ file' = file
        /\ pc' = "threw"
        /\ fp' = "null"
  /\ UNCHANGED <<scene, ret, variant, build, m, frame_buffer, k,
                 nullWrites>>

\* part_000: write_ppm_data opens with ios::app and throws if not open
WritePpmDataOpen ==
  /\ pc = "open_data"
  /\ variant = "part_000"
  /\ \/ /\ fp' = "open"
        /\ pc' = "data"
        /\ file' = [file EXCEPT !.exists = TRUE]
     \/ /\ fp' = "null"
        /\ pc' = "threw"
        /\ file' = file
  /\ UNCHANGED <<scene, ret, variant, build, m, frame_buffer, k,
                 nullWrites>>

\* part_000: one pass of the loops of write_ppm_data
WritePpmDataPixel ==
  /\ pc = "data"
  /\ variant = "part_000"
  /\ fp = "open"
  /\ k < rows(scene) * cols(scene)
  /\ LET px == writtenPixel(variant, scene, k)
         v  == frame_buffer[px[1] * cols(scene) + px[2] + 1]
     IN  file' = [file EXCEPT !.data =
                    Append(@, [pixel |-> px,
                               rgb |-> pixelBytes(variant, v, build)])]
  /\ k' = k + 1
  /\ UNCHANGED <<scene, ret, variant, build, pc, m, frame_buffer, fp,
                 nullWrites>>

\* part_000: write_ppm_data and Render return
WritePpmDataDone ==
  /\ pc = "data"
  /\ variant = "part_000"
  /\ fp = "open"
  /\ k = rows(scene) * cols(scene)
  /\ fp' = "none"
  /\ pc' = "returned"
  /\ UNCHANGED <<scene, ret, variant, build, m, frame_buffer, file, k,
                 nullWrites>>

NextRender ==
  \/ RenderPixel
  \/ RenderPixelsDone
  \/ Fopen
  \/ Fprintf
  \/ Fwrite
  \/ NullHandleUse
  \/ Fclose
  \/ WritePpmHeader
  \/ WritePpmDataOpen
  \/ WritePpmDataPixel
  \/ WritePpmDataDone

SpecRender == InitRender /\ [][NextRender]_vars

----------------------------------------------------------------------------
(* Properties of trace and castRay, checked under Spec *)

RECURSIVE Nodes(_)
\* every call of the call tree t
Nodes(t) == {t} \cup UNION {Nodes(t.children[i]) : i \in 1..Len(t.children)}

\* the primitives that report an intersection with the ray
Reports(orig, dir) ==
  {i \in 1..Len(scene.objects) : intersect(scene.objects[i], orig, dir).hit}

Distance(i, orig, dir) == intersect(scene.objects[i], orig, dir).tNearK

\* C1: a call of castRay with depth > scene.maxDepth, at the top or reached
\* by recursion, returns black and makes no trace and no recursive call
C1_BlackBeyondMaxDepth ==
  ret.op = "castRay" =>
    \A n \in Nodes(ret.tree) :
      n.depth > scene.maxDepth =>
        n.color = Black /\ n.traces = 0 /\ n.children = <<>>

\* a call beyond maxDepth whose ray would hit a primitive, in a scene with
\* lights and a background that is not black
C1_Witness ==
  /\ ret.op = "castRay"
  /\ ret.depth > scene.maxDepth
  /\ Reports(ret.orig, ret.dir) # {}
  /\ scene.lights # <<>>
  /\ scene.backgroundColor # Black
  /\ ret.tree.color = Black

\* C2 as stated: a ray that hits no primitive is given the background colour
\* at every depth castRay is called with
C2_MissIsBackgroundAtEveryDepth ==
  ret.op = "castRay" =>
    \A n \in Nodes(ret.tree) :
      Reports(n.orig, n.dir) = {} => n.color = scene.backgroundColor

\* C2 amended: a ray that hits no primitive is given the background colour
\* at every depth up to scene.maxDepth
C2_MissIsBackgroundUpToMaxDepth ==
  ret.op = "castRay" =>
    \A n \in Nodes(ret.tree) :
      (n.depth <= scene.maxDepth /\ Reports(n.orig, n.dir) = {}) =>
        n.color = scene.backgroundColor

\* a secondary ray that misses, in a scene whose background is not black
C2_Witness ==
  /\ ret.op = "castRay"
  /\ scene.backgroundColor # Black
  /\ \E n \in Nodes(ret.tree) :
       /\ n.depth >= 1
       /\ n.depth <= scene.maxDepth
       /\ Reports(n.orig, n.dir) = {}
       /\ n.color = scene.backgroundColor

\* C3: trace returns nothing exactly when no primitive reports an
\* intersection; otherwise the payload is the report of the first primitive,
\* in the order of the list, among those at the least distance
C3_TraceNearestFirst ==
  ret.op = "trace" =>
    LET H == Reports(ret.orig, ret.dir)
        p == ret.payload
    IN  /\ p.some <=> H # {}
        /\ p.some =>
             \E i \in H :
               /\ \A j \in H : Distance(i, ret.orig, ret.dir)
                                 <= Distance(j, ret.orig, ret.dir)
               /\ \A j \in H : Distance(j, ret.orig, ret.dir)
                                 = Distance(i, ret.orig, ret.dir) => i <= j
               /\ p.hit_obj = i
               /\ p.tNear = Distance(i, ret.orig, ret.dir)
               /\ p.index = intersect(scene.objects[i], ret.orig,
                                      ret.dir).indexK
               /\ p.uv = intersect(scene.objects[i], ret.orig, ret.dir).uvK

\* two different primitives at the same least distance: the first is returned
C3_Witness ==
  /\ ret.op = "trace"
  /\ \E i, j \in Reports(ret.orig, ret.dir) :
       /\ i < j
       /\ scene.objects[i].index # scene.objects[j].index
       /\ Distance(i, ret.orig, ret.dir) = Distance(j, ret.orig, ret.dir)
       /\ ret.payload.hit_obj = i
       /\ ret.payload.index = scene.objects[i].index

\* whether light is occluded at the hit of call n: some primitive is hit by
\* the shadow ray at a distance whose square is below the squared distance
\* to the light
Occluded(n, light) ==
  LET lightDir0  == VSub(light.position, n.hitPoint)
      shadowOrig == shadowPointOrig(n.hitPoint, n.N, n.dir, scene.epsilon)
      lightDir   == normalize(lightDir0)
  IN  \E i \in Reports(shadowOrig, lightDir) :
        flt(fmul(Distance(i, shadowOrig, lightDir),
                 Distance(i, shadowOrig, lightDir)),
            dotProduct(lightDir0, lightDir0))

\* C4: in the default branch an occluded light adds nothing to the diffuse
\* accumulator and nothing to the specular accumulator
C4_OccludedLightAddsNothing ==
  ret.op = "castRay" =>
    \A n \in Nodes(ret.tree) :
      n.branch = "DIFFUSE_AND_GLOSSY" =>
        \A i \in 1..Len(n.lights) :
          Occluded(n, scene.lights[i]) =>
            /\ n.lights[i].lightAmtAdd = Vector3f1(0)
            /\ n.lights[i].specularAdd = Vector3f1(0)

\* the discriminant 1 - (1/ior)^2 (1 - cosi^2) of refract is negative
TotalInternalReflection(I, N, ior) ==
  LET cosi == fabs(clamp(0 - FP, FP, dotProduct(I, N)))
  IN  flt(fsub(FP, fmul(fdiv(fdiv(FP, ior), ior),
                        fsub(FP, fmul(cosi, cosi)))), 0)

\* C8: under total internal reflection the result of the reflective and
\* refractive branch is kr times the colour of the reflection ray
C8_TotalInternalReflectionIsKrReflection ==
  ret.op = "castRay" =>
    \A n \in Nodes(ret.tree) :
      (/\ n.branch = "REFLECTION_AND_REFRACTION"
       /\ TotalInternalReflection(n.dir, n.N,
                                  scene.objects[n.payload.hit_obj].ior)) =>
        n.color = VMulS(n.children[1].color,
                        fresnel(n.dir, n.N,
                                scene.objects[n.payload.hit_obj].ior))

\* C9: in both reflective branches the origin of a secondary ray is the hit
\* point moved by epsilon along the normal to the side the new direction
\* points to
C9_SecondaryOriginOnTheSideOfTheRay ==
  ret.op = "castRay" =>
    \A n \in Nodes(ret.tree) :
      n.branch \in {"REFLECTION_AND_REFRACTION", "REFLECTION"} =>
        \A i \in 1..Len(n.children) :
          LET c == n.children[i]
              d == dotProduct(c.dir, n.N)
          IN  /\ (~IsNaN(d) /\ d >= 0) =>
                   c.orig = VAdd(n.hitPoint, VMulS(n.N, scene.epsilon))
              /\ flt(d, 0) =>
                   c.orig = VSub(n.hitPoint, VMulS(n.N, scene.epsilon))

RECURSIVE Pow2(_)
Pow2(n) == IF n = 0 THEN 1 ELSE 2 * Pow2(n - 1)

\* C10: a call at depth 0 ends, with a call tree in which every recursive
\* call is one level deeper than its caller, the reflective and refractive
\* branch makes two calls, the reflective branch one and the default branch
\* none (one trace per light instead), no call is deeper than maxDepth + 1,
\* and only the depth test stops a call before it traces
C10_RecursionBoundedByDepth ==
  (ret.op = "castRay" /\ ret.depth = 0) =>
    /\ Cardinality(Nodes(ret.tree)) <= Pow2(scene.maxDepth + 2) - 1
    /\ \A n \in Nodes(ret.tree) :
         /\ n.depth <= scene.maxDepth + 1
         /\ \A i \in 1..Len(n.children) : n.children[i].depth = n.depth + 1
         /\ (n.branch = "black") <=> (n.depth > scene.maxDepth)
         /\ n.branch = "black" => n.traces = 0 /\ Len(n.children) = 0
         /\ n.branch = "miss" => n.traces = 1 /\ Len(n.children) = 0
         /\ n.branch = "REFLECTION_AND_REFRACTION" =>
              n.traces = 1 /\ Len(n.children) = 2
         /\ n.branch = "REFLECTION" => n.traces = 1 /\ Len(n.children) = 1
         /\ n.branch = "DIFFUSE_AND_GLOSSY" =>
              /\ n.traces = 1 + Len(scene.lights)
              /\ Len(n.children) = 0

\* a primary ray whose tree holds both reflective branches and reaches the
\* cut-off level maxDepth + 1
C10_Witness ==
  /\ ret.op = "castRay"
  /\ ret.depth = 0
  /\ scene.maxDepth >= 1
  /\ \E n \in Nodes(ret.tree) : n.depth = scene.maxDepth + 1
  /\ \E n \in Nodes(ret.tree) :
       n.branch = "REFLECTION_AND_REFRACTION" /\ Len(n.children) = 2
  /\ \E n \in Nodes(ret.tree) :
       n.branch = "REFLECTION" /\ Len(n.children) = 1


----------------------------------------------------------------------------
(* Properties of Render, checked under SpecRender *)

\* C5: when binary.ppm cannot be opened, Render surfaces the failure: it
\* makes no call through the handle that was not opened and it does not
\* return as if the image had been written.
C5_OpenFailureIsSurfaced ==
  fp = "null" => nullWrites = 0 /\ pc # "returned"

\* the colour castRay gives for pixel (row, col) of the running variant
Shaded(row, col) ==
  IF variant = "Renderer.hpp"
  THEN castRay(eye_pos, primaryDirA(scene, row, col), scene, 0).color
  ELSE castRay(eye_pos, primaryDirB(scene, row, col), scene, 0).color

PixelsOf(sc) == (0..(sc.height - 1)) \X (0..(sc.width - 1))

\* C6: the file Render has written starts with the header P6, the width,
\* then the height, 255, and holds width * height triples, one for each
\* pixel of the frame and none twice.
C6_HeaderAndOneTriplePerPixel ==
  (pc = "returned" /\ nullWrites = 0) =>
     /\ file.exists
     /\ file.header = [magic |-> "P6", first |-> scene.width,
                       second |-> scene.height, maxval |-> 255]
     /\ Len(file.data) = scene.width * scene.height
     /\ \A px \in PixelsOf(scene) :
          Cardinality({n \in 1..Len(file.data) : file.data[n].pixel = px}) = 1

C6_Witness ==
  /\ pc = "returned"
  /\ nullWrites = 0
  /\ variant = "part_000"
  /\ scene.width # scene.height
  /\ file.header.first = scene.width
  /\ Len(file.data) = 2

\* C7: each byte of the file is the channel of the shaded colour clamped to
\* [0, 1], times 255, truncated to an integer.
C7_BytesAreClampedColour ==
  \A n \in 1..Len(file.data) :
     file.data[n] # StaleFile.data[1] =>
       \A c \in 1..3 :
          file.data[n].rgb[c] =
            Quot(255 * clamp(0, FP, Shaded(file.data[n].pixel[1],
                                           file.data[n].pixel[2])[c]), FP)

============================================================================
